---- MODULE Spec2Model ----
(***************************************************************************)
(* Reconciliation core of the Yandex Cloud Ansible collection:             *)
(* plugins/modules/compute_disk.py and plugins/modules/compute_instance.py.*)
(* One call of main() is a process that locates the resource by name       *)
(* (_find), takes the branch its `match module.params['state']` selects,   *)
(* issues at most one mutating RPC, waits for the operation (_wait),       *)
(* fetches the resource (_get) and ends in module.exit_json or             *)
(* module.fail_json.  The remote API (resources of one name in one folder, *)
(* long-running operations) is the environment.                            *)
(***************************************************************************)
EXTENDS Integers, Sequences, FiniteSets, TLC

VARIABLES
    kind,     \* which module runs: "disk" or "instance"
    remote,   \* resource id -> remote resource carrying the name, or NoRes
    ops,      \* operation id -> long-running operation of the remote
    call,     \* process -> state of its main() call
    procs,    \* the processes that run calls
    ncalls,   \* number of calls started so far
    nenv,     \* number of outside changes made so far
    last,     \* summary of the call that ended most recently
    quiet     \* TRUE while nothing changed the remote since `last` ended

vars == <<kind, remote, ops, call, procs, ncalls, nenv, last, quiet>>

---------------------------------------------------------------------------
(* Bounds *)

MaxRes   == 3   \* resource ids 1..MaxRes
MaxPre   == 2   \* resources that may exist before the first call: ids 1..MaxPre
MaxOps   == 2   \* operation slots of the remote
MaxPolls == 1   \* polls of one operation that may answer done=false
MaxCalls == 2   \* calls per behaviour
MaxEnv   == 1   \* outside changes per behaviour
MaxAttempts == 5   \* attempts of one unary call the transport may answer

ResIds == 1..MaxRes
OpIds  == 1..MaxOps
AllProcs == {1, 2}

---------------------------------------------------------------------------
(* Values *)

Kinds == {"disk", "instance"}

\* choices of `state` in the argument_spec of each module
DiskStates     == {"present", "absent"}
InstanceStates == {"present", "restarted", "stopped", "absent"}

States(k) == IF k = "disk" THEN DiskStates ELSE InstanceStates

\* a few of the remote instance statuses; STOPPED is the one the code tests
Statuses == {"RUNNING", "STOPPED", "ERROR"}

DiskSizes    == {4, 10}
Descriptions == {"", "d"}

\* label dicts in insertion order, as sequences of <<key, value>>
Lempty == <<>>
Lab    == << <<"a", "x">>, <<"b", "y">> >>
Lba    == << <<"b", "y">>, <<"a", "x">> >>
LabelChoices == {Lempty, Lab, Lba}

\* str(int): the decimal digits
RECURSIVE IntToStr(_)
IntToStr(n) == IF n < 10 THEN <<n>> ELSE IntToStr(n \div 10) \o <<n % 10>>

\* the remote's representation of a resource (ints are ints)
NoRes == [exists |-> FALSE, size |-> 0, description |-> "", labels |-> Lempty,
          type_id |-> "",
          status |-> ""]

\* the empty dict() _find and _get start from
EmptyDict == [id |-> 0, size |-> <<>>, description |-> "", labels |-> Lempty,
              type_id |-> "",
              status |-> ""]

\* MessageToDict of a resource message: an int64 (size) becomes its decimal
\* string, the other fields keep their values
message_to_dict(id, r) ==
    [id |-> id, size |-> IntToStr(r.size), description |-> r.description,
     labels |-> r.labels, type_id |-> r.type_id, status |-> r.status]

\* error payloads of a failed operation
ErrPayloads == {[type |-> "operation", code |-> 3, message |-> "invalid"],
                [type |-> "operation", code |-> 8, message |-> "quota"]}
NoErr  == [type |-> "none", code |-> 0, message |-> ""]

---------------------------------------------------------------------------
(* The retrying client of module_utils/sdk.py *)

MAX_RETRY_COUNT  == 3
PER_CALL_TIMEOUT == 10
RETRIABLE_CODES  == {"UNAVAILABLE"}

\* the statuses one attempt of a unary call may end with
StatusCodes == {"OK", "UNAVAILABLE", "INVALID_ARGUMENT"}

\* a client whose interceptor retries once more than the policy allows
client_RetriesOnceMore ==
    [max_retry_count |-> MAX_RETRY_COUNT + 1,
     per_call_timeout |-> PER_CALL_TIMEOUT,
     retriable_codes |-> RETRIABLE_CODES]

\* a client whose interceptor takes every failure for retriable
client_RetriesAnyFailure ==
    [max_retry_count |-> MAX_RETRY_COUNT,
     per_call_timeout |-> PER_CALL_TIMEOUT,
     retriable_codes |-> StatusCodes \ {"OK"}]

\* client(service, **kwargs): the policy of the RetryInterceptor every
\* service client is built with
client ==
    [max_retry_count |-> MAX_RETRY_COUNT,
     per_call_timeout |-> PER_CALL_TIMEOUT,
     retriable_codes |-> RETRIABLE_CODES]

\* what the remote answers to the successive attempts of one unary call
Streams == [1..MaxAttempts -> StatusCodes]

\* the grpc error of a status, as the caller's except clause sees it
RpcError(status) ==
    [type |-> "rpc", code |-> IF status = "UNAVAILABLE" THEN 14 ELSE 3,
     message |-> status]

\* the interceptor's retry loop from attempt n on: an attempt that ends OK
\* returns; one that fails is retried while its status is retriable and
\* fewer than max_retry_count retries were made; any other failure is
\* raised to the caller.  `attempts` are the statuses of the attempts made.
RECURSIVE Attempt(_, _, _)
Attempt(policy, stream, n) ==
    IF stream[n] = "OK"
    THEN [res |-> "ok", attempts |-> SubSeq(stream, 1, n), err |-> NoErr]
    ELSE IF \/ stream[n] \notin policy.retriable_codes
            \/ n - 1 >= policy.max_retry_count
            \/ n >= MaxAttempts
         THEN [res |-> "error", attempts |-> SubSeq(stream, 1, n),
               err |-> RpcError(stream[n])]
         ELSE Attempt(policy, stream, n + 1)

\* one unary call through the interceptor
RetryInterceptor(policy, stream) == Attempt(policy, stream, 1)

\* the ways a unary call issued through client() can end
TransportResults == {RetryInterceptor(client, s) : s \in Streams}

\* the answers the calls of the state machine meet: always OK, OK at the
\* second attempt, never available, refused at once, refused at the third
\* attempt
Answers ==
    {[i \in 1..MaxAttempts |-> "OK"],
     [i \in 1..MaxAttempts |-> IF i < 2 THEN "UNAVAILABLE" ELSE "OK"],
     [i \in 1..MaxAttempts |-> "UNAVAILABLE"],
     [i \in 1..MaxAttempts |-> "INVALID_ARGUMENT"],
     [i \in 1..MaxAttempts |-> IF i < 3 THEN "UNAVAILABLE"
                               ELSE "INVALID_ARGUMENT"]}

\* the errors a helper's except clause may catch
TransportFailures ==
    {r \in {RetryInterceptor(client, s) : s \in Answers} : r.res = "error"}

---------------------------------------------------------------------------
(* The remote's List and the locator *)

\* the existing resources of the name, as dicts, in ascending id order
RECURSIVE Matching(_, _)
Matching(rem, n) ==
    IF n = 0 THEN <<>>
    ELSE IF rem[n].exists
         THEN Append(Matching(rem, n - 1), message_to_dict(n, rem[n]))
         ELSE Matching(rem, n - 1)

\* the List request of _find: ListDisksRequest sets page_size=1,
\* ListInstancesRequest sets no page size (0, the default of the field)
ListRequest(k) == [page_size |-> IF k = "disk" THEN 1 ELSE 0]

\* the entries of the List response: the first page_size matches when the
\* request sets a page size, every match when it sets none
ListResponse(k, rem) ==
    LET all == Matching(rem, MaxRes)
        req == ListRequest(k)
    IN  IF req.page_size > 0 /\ Len(all) > req.page_size
        THEN SubSeq(all, 1, req.page_size)
        ELSE all

\* _find testing `len(...) > 1` for `len(...) == 1`
find_WrongLength(response) ==
    IF Len(response) > 1 THEN response[1] ELSE EmptyDict

\* _find: the entry when the response holds exactly one, else the empty dict
find(response) ==
    IF Len(response) = 1 THEN response[1] ELSE EmptyDict

---------------------------------------------------------------------------
(* The decisions of main() *)

\* dict(sorted(d.items())): the items in ascending key order
KeyRank(k) == IF k = "a" THEN 1 ELSE 2

RECURSIVE InsertItem(_, _)
InsertItem(item, sorted) ==
    IF sorted = <<>> THEN <<item>>
    ELSE IF KeyRank(item[1]) <= KeyRank(Head(sorted)[1])
         THEN <<item>> \o sorted
         ELSE <<Head(sorted)>> \o InsertItem(item, Tail(sorted))

\* the items left in insertion order
SortedItems_KeepsOrder(items) == items

RECURSIVE SortedItems(_)
SortedItems(items) ==
    IF items = <<>> THEN <<>>
    ELSE InsertItem(Head(items), SortedItems(Tail(items)))

\* dict == dict: the same keys with the same values, whatever the order
DictEq(a, b) == {a[i] : i \in DOMAIN a} = {b[i] : i \in DOMAIN b}

\* the elif of compute_disk.main testing the disk type as well
DiskDiffers_ComparesType(disk, params) ==
    \/ disk.size # IntToStr(params.size)
    \/ disk.description # params.description
    \/ ~DictEq(disk.labels, params.labels)
    \/ disk.type_id # params.type_id

\* the elif of compute_disk.main without its test of the labels
DiskDiffers_IgnoresLabels(disk, params) ==
    \/ disk.size # IntToStr(params.size)
    \/ disk.description # params.description

\* the elif of compute_disk.main: size, description or labels differ
DiskDiffers(disk, params) ==
    \/ disk.size # IntToStr(params.size)
    \/ disk.description # params.description
    \/ ~DictEq(SortedItems(disk.labels), SortedItems(params.labels))

\* compute_disk.main without the else of state=present: every located disk
\* is updated
DiskMain_AlwaysUpdates(state, disk, params) ==
    IF state = "present"
    THEN IF disk = EmptyDict THEN "create" ELSE "update"
    ELSE IF disk = EmptyDict THEN "not_exists" ELSE "delete"

\* the branch compute_disk.main takes
DiskMain(state, disk, params) ==
    IF state = "present"
    THEN IF disk = EmptyDict THEN "create"
         ELSE IF DiskDiffers(disk, params) THEN "update"
         ELSE "exists"
    ELSE IF disk = EmptyDict THEN "not_exists" ELSE "delete"

\* compute_instance.main taking restarted/stopped with nothing located as
\* a no-op instead of failing
InstanceMain_AbsentIsNoop(state, instance) ==
    CASE state = "present" ->
            IF instance = EmptyDict THEN "create"
            ELSE IF instance.status = "STOPPED" THEN "start"
            ELSE "exists"
      [] state = "restarted" ->
            IF instance = EmptyDict THEN "not_exists"
            ELSE IF instance.status = "STOPPED" THEN "start"
            ELSE "restart"
      [] state = "stopped" ->
            IF instance = EmptyDict THEN "not_exists"
            ELSE IF instance.status = "STOPPED" THEN "stopped_already"
            ELSE "stop"
      [] OTHER ->
            IF instance = EmptyDict THEN "not_exists" ELSE "delete"

\* compute_instance.main restarting whatever the located status is
InstanceMain_AlwaysRestarts(state, instance) ==
    CASE state = "present" ->
            IF instance = EmptyDict THEN "create"
            ELSE IF instance.status = "STOPPED" THEN "start"
            ELSE "exists"
      [] state = "restarted" ->
            IF instance = EmptyDict THEN "not_found" ELSE "restart"
      [] state = "stopped" ->
            IF instance = EmptyDict THEN "not_found"
            ELSE IF instance.status = "STOPPED" THEN "stopped_already"
            ELSE "stop"
      [] OTHER ->
            IF instance = EmptyDict THEN "not_exists" ELSE "delete"

\* compute_instance.main taking present with a STOPPED instance as settled
InstanceMain_PresentLeavesStopped(state, instance) ==
    CASE state = "present" ->
            IF instance = EmptyDict THEN "create"
            ELSE IF instance.status = "STOPPED" THEN "exists"
            ELSE "exists"
      [] state = "restarted" ->
            IF instance = EmptyDict THEN "not_found"
            ELSE IF instance.status = "STOPPED" THEN "start"
            ELSE "restart"
      [] state = "stopped" ->
            IF instance = EmptyDict THEN "not_found"
            ELSE IF instance.status = "STOPPED" THEN "stopped_already"
            ELSE "stop"
      [] OTHER ->
            IF instance = EmptyDict THEN "not_exists" ELSE "delete"

\* compute_instance.main taking restarted with a running instance as settled
InstanceMain_RestartedLeavesRunning(state, instance) ==
    CASE state = "present" ->
            IF instance = EmptyDict THEN "create"
            ELSE IF instance.status = "STOPPED" THEN "start"
            ELSE "exists"
      [] state = "restarted" ->
            IF instance = EmptyDict THEN "not_found"
            ELSE IF instance.status = "STOPPED" THEN "start"
            ELSE "exists"
      [] state = "stopped" ->
            IF instance = EmptyDict THEN "not_found"
            ELSE IF instance.status = "STOPPED" THEN "stopped_already"
            ELSE "stop"
      [] OTHER ->
            IF instance = EmptyDict THEN "not_exists" ELSE "delete"

\* compute_instance.main restarting where it has to stop
InstanceMain_StoppedRestarts(state, instance) ==
    CASE state = "present" ->
            IF instance = EmptyDict THEN "create"
            ELSE IF instance.status = "STOPPED" THEN "start"
            ELSE "exists"
      [] state = "restarted" ->
            IF instance = EmptyDict THEN "not_found"
            ELSE IF instance.status = "STOPPED" THEN "start"
            ELSE "restart"
      [] state = "stopped" ->
            IF instance = EmptyDict THEN "not_found"
            ELSE IF instance.status = "STOPPED" THEN "stopped_already"
            ELSE "restart"
      [] OTHER ->
            IF instance = EmptyDict THEN "not_exists" ELSE "delete"

\* compute_instance.main with the commented-out _update put to use for a
\* located instance that is not stopped
InstanceMain_PresentUpdates(state, instance) ==
    CASE state = "present" ->
            IF instance = EmptyDict THEN "create"
            ELSE IF instance.status = "STOPPED" THEN "start"
            ELSE "update"
      [] state = "restarted" ->
            IF instance = EmptyDict THEN "not_found"
            ELSE IF instance.status = "STOPPED" THEN "start"
            ELSE "restart"
      [] state = "stopped" ->
            IF instance = EmptyDict THEN "not_found"
            ELSE IF instance.status = "STOPPED" THEN "stopped_already"
            ELSE "stop"
      [] OTHER ->
            IF instance = EmptyDict THEN "not_exists" ELSE "delete"

\* the branch compute_instance.main takes
InstanceMain(state, instance) ==
    CASE state = "present" ->
            IF instance = EmptyDict THEN "create"
            ELSE IF instance.status = "STOPPED" THEN "start"
            ELSE "exists"
      [] state = "restarted" ->
            IF instance = EmptyDict THEN "not_found"
            ELSE IF instance.status = "STOPPED" THEN "start"
            ELSE "restart"
      [] state = "stopped" ->
            IF instance = EmptyDict THEN "not_found"
            ELSE IF instance.status = "STOPPED" THEN "stopped_already"
            ELSE "stop"
      [] OTHER ->
            IF instance = EmptyDict THEN "not_exists" ELSE "delete"

\* a main that locates the resource again when it decides
Main_LocatesAgain(k, c) ==
    LET again == find(ListResponse(k, remote))
    IN  IF k = "disk" THEN DiskMain(c.state, again, c.params)
        ELSE InstanceMain(c.state, again)

\* a main that creates nothing while a Create is in flight at the remote,
\* as it would under a lock on the name
Main_HoldsBack(k, c) ==
    IF /\ c.state = "present" /\ c.located = EmptyDict
       /\ \E o \in OpIds : ops[o].st = "pending" /\ ops[o].type = "Create"
    THEN "exists"
    ELSE IF k = "disk" THEN DiskMain(c.state, c.located, c.params)
    ELSE InstanceMain(c.state, c.located)

Main(k, c) ==
    IF k = "disk" THEN DiskMain(c.state, c.located, c.params)
    ELSE InstanceMain(c.state, c.located)

\* main fetching the resource after every _wait, the one of a delete too
AfterWait_AlwaysFetches(k, state) == "get"

\* main exiting after every _wait without the _get
AfterWait_NoFetch(k, state) == "exit"

\* what follows a _wait that returned: "get" is exit_json(changed=True,
\* <kind>=_get(...)), "exit" is the exit_json of the absent case, which
\* fetches nothing
AfterWait(k, state) == IF state = "absent" THEN "exit" ELSE "get"

\* absent with nothing located reporting a change
Changed_AbsentChanges(branch) == branch \notin {"exists", "stopped_already"}

\* the exit_json after a start reporting no change
Changed_StartIsQuiet(branch) ==
    branch \notin {"exists", "not_exists", "stopped_already", "start"}

\* stopped with status STOPPED reaching the exit_json(changed=True) that
\* follows the if of the stopped case
Changed_FallsThrough(branch) == branch \notin {"exists", "not_exists"}

\* the `changed` of the exit_json that ends the branch
Changed(branch) == branch \notin {"exists", "not_exists", "stopped_already"}

\* the msg of the exit_json that ends the branch
ExitMsg(k, state, branch) ==
    CASE branch = "create"          -> "created"
      [] branch = "update"          -> "updated"
      [] branch = "exists"          -> "exists"
      [] branch = "not_exists"      -> "not exists"
      [] branch = "delete"          -> "deleted"
      [] branch = "stopped_already" -> "stopped"
      [] branch = "stop"            -> "stopped"
      [] branch = "restart"         -> "restarted"
      [] branch = "start"           ->
            IF state = "present" THEN "exists" ELSE "restarted"
      [] OTHER                      -> "not found"

---------------------------------------------------------------------------
(* The update request and the diff of compute_disk.main *)

\* an update_mask that leaves out description and labels
UpdateMask_SizeOnly(disk, params) == {"size"}

\* an update_mask that names only the fields whose value differs
UpdateMask_OnlyDiffering(disk, params) ==
    (IF disk.size # IntToStr(params.size) THEN {"size"} ELSE {})
    \cup (IF disk.description # params.description THEN {"description"}
          ELSE {})
    \cup (IF ~DictEq(disk.labels, params.labels) THEN {"labels"} ELSE {})

\* the update_mask of UpdateDiskRequest: FieldMask(paths=['size',
\* 'description', 'labels']), whatever differs
UpdateMask(disk, params) == {"size", "description", "labels"}

\* one line of json.dumps(..., indent=2, sort_keys=True): the indentation
\* level, the key, the value (a string, or the digits of str(size)) and
\* whether a comma ends the line
Line(indent, key, str, num, comma) ==
    [indent |-> indent, key |-> key, str |-> str, num |-> num,
     comma |-> comma]

\* the lines of the items of a non-empty dict, a comma after all but the last
RECURSIVE ItemLines(_)
ItemLines(items) ==
    IF items = <<>> THEN <<>>
    ELSE <<Line(2, Head(items)[1], Head(items)[2], <<>>, Len(items) > 1)>>
         \o ItemLines(Tail(items))

\* dumps({'size': ..., 'description': ..., 'labels': ...}, indent=2,
\* sort_keys=True).splitlines(keepends=True): keys in sorted order at both
\* levels, an empty dict on one line
dumps(d) ==
    <<Line(0, "{", "", <<>>, FALSE),
      Line(1, "description", d.description, <<>>, TRUE)>>
    \o (IF d.labels = <<>>
        THEN <<Line(1, "labels", "{}", <<>>, TRUE)>>
        ELSE <<Line(1, "labels", "{", <<>>, FALSE)>>
             \o ItemLines(SortedItems(d.labels))
             \o <<Line(1, "}", "", <<>>, TRUE)>>)
    \o <<Line(1, "size", "", d.size, FALSE),
         Line(0, "}", "", <<>>, FALSE)>>

\* the dict main dumps for the located disk
OldFields(disk) ==
    [size |-> disk.size, description |-> disk.description,
     labels |-> SortedItems(disk.labels)]

\* the dict main dumps for the desired state
NewFields(params) ==
    [size |-> IntToStr(params.size), description |-> params.description,
     labels |-> SortedItems(params.labels)]

\* length of the longest common subsequence of two line sequences
RECURSIVE LcsLen(_, _)
LcsLen(a, b) ==
    IF a = <<>> \/ b = <<>> THEN 0
    ELSE IF Head(a) = Head(b) THEN 1 + LcsLen(Tail(a), Tail(b))
    ELSE LET x == LcsLen(Tail(a), b)
             y == LcsLen(a, Tail(b))
         IN  IF x >= y THEN x ELSE y

\* difflib.ndiff on two line sequences: every line of either side, tagged
\* " " when common to both, "-" when only in the old and "+" when only in
\* the new one (the "? " hint lines of ndiff are left out)
RECURSIVE ndiff(_, _)
ndiff(a, b) ==
    IF a = <<>> /\ b = <<>> THEN <<>>
    ELSE IF b = <<>>
         THEN <<[tag |-> "-", line |-> Head(a)]>> \o ndiff(Tail(a), b)
    ELSE IF a = <<>>
         THEN <<[tag |-> "+", line |-> Head(b)]>> \o ndiff(a, Tail(b))
    ELSE IF Head(a) = Head(b)
         THEN <<[tag |-> " ", line |-> Head(a)]>> \o ndiff(Tail(a), Tail(b))
    ELSE IF LcsLen(Tail(a), b) >= LcsLen(a, Tail(b))
         THEN <<[tag |-> "-", line |-> Head(a)]>> \o ndiff(Tail(a), b)
    ELSE <<[tag |-> "+", line |-> Head(b)]>> \o ndiff(a, Tail(b))

\* the diff= of the exit_json of the update branch; the other exit_json
\* calls pass none
Diff(branch, disk, params) ==
    IF branch = "update"
    THEN ndiff(dumps(OldFields(disk)), dumps(NewFields(params)))
    ELSE <<>>

---------------------------------------------------------------------------
(* State of one call *)

NoOperation == [id |-> 0, rid |-> 0]
NoCall == [valid |-> FALSE, state |-> "", params |-> [size |-> 0,
           description |-> "", labels |-> Lempty, type_id |-> ""],
           ok |-> FALSE,
           changed |-> FALSE, matched |-> FALSE]

\* desired states the calls draw from: a base one and one differing from it
\* in the size, in the description, in the labels, and in the label order
DiskParams ==
    {[size |-> 4,  description |-> "",  labels |-> Lab,
      type_id |-> "network-hdd"],
     [size |-> 10, description |-> "",  labels |-> Lab,
      type_id |-> "network-hdd"],
     [size |-> 4,  description |-> "d", labels |-> Lab,
      type_id |-> "network-hdd"],
     [size |-> 4,  description |-> "",  labels |-> Lempty,
      type_id |-> "network-hdd"],
     [size |-> 4,  description |-> "",  labels |-> Lba,
      type_id |-> "network-hdd"],
     [size |-> 4,  description |-> "",  labels |-> Lab,
      type_id |-> "network-ssd"]}

InstanceParams == {[size |-> 0, description |-> "d", labels |-> Lempty,
                    type_id |-> ""]}

Params(k) == IF k = "disk" THEN DiskParams ELSE InstanceParams

BaseParams(k) ==
    IF k = "disk" THEN [size |-> 4, description |-> "", labels |-> Lab,
                        type_id |-> "network-hdd"]
    ELSE [size |-> 0, description |-> "d", labels |-> Lempty, type_id |-> ""]

\* the <<state, desired fields>> a call may be given; the fields are drawn
\* freely for present, the only state whose branches read them
Inputs(k) ==
    {inp \in States(k) \X Params(k) :
        inp[1] # "present" => inp[2] = BaseParams(k)}

\* the dict of an operation as _wait reads it: 'done', and 'error' if set
NoPoll == [done |-> FALSE, err |-> NoErr]

\* the credential options of the argument_spec
Credentials == {"iam_token", "token", "service_account_key"}

\* the credential options a caller may supply: none, one, two, all
CredChoices == {{}, {"iam_token"}, {"iam_token", "token"}, Credentials}

\* required_one_of and mutually_exclusive of the AnsibleModule call, as far
\* as they name credentials
required_one_of    == {Credentials}
mutually_exclusive == {Credentials}

\* an AnsibleModule that does not check mutually_exclusive
AnsibleModule_NoExclusion(supplied) ==
    IF \E g \in required_one_of : g \cap supplied = {}
    THEN "one of the following is required"
    ELSE "ok"

\* AnsibleModule(argument_spec, required_one_of, mutually_exclusive): the
\* constructor calls fail_json when more than one option of a mutually
\* exclusive group, or none of a required_one_of group, is supplied
AnsibleModule(supplied) ==
    IF \E g \in mutually_exclusive : Cardinality(g \cap supplied) > 1
    THEN "parameters are mutually exclusive"
    ELSE IF \E g \in required_one_of : g \cap supplied = {}
         THEN "one of the following is required"
         ELSE "ok"

\* no client built yet
NoClient == [max_retry_count |-> 0, per_call_timeout |-> 0,
             retriable_codes |-> {}]

IdleCall == [pc |-> "idle", state |-> "present",
             params |-> [size |-> 0, description |-> "", labels |-> Lempty,
                         type_id |-> ""],
             request |-> [page_size |-> 0], update_mask |-> {},
             response |-> <<>>, located |-> EmptyDict, listed |-> FALSE,
             operation |-> NoOperation, polled |-> NoPoll, polls |-> 0,
             rpcs |-> <<>>, out |-> <<>>, follows |-> NoCall,
             disturbed |-> FALSE,
             clients |-> [resource |-> NoClient, operation |-> NoClient],
             wire |-> <<>>, creds |-> {}]

MutatingRpcs == {"Create", "Update", "Delete", "Start", "Restart", "Stop"}

Rpc(name, arg, res) == [rpc |-> name, arg |-> arg, res |-> res]

\* an exit_json that returns to main instead of exiting: main runs on to
\* the exit_json that follows the if of the case
exit_json_Returns(c, changed, msg, res) ==
    [c EXCEPT !.out = Append(@, [type |-> "exit", changed |-> changed,
                                 msg |-> msg, res |-> res, err |-> NoErr,
                                 diff |-> <<>>]),
              !.pc = IF c.pc = "match" THEN "get" ELSE "done"]

\* module.exit_json(changed=..., msg=..., <kind>=...): one success
\* descriptor, and the process exits
exit_json(c, changed, msg, res) ==
    [c EXCEPT !.out = Append(@, [type |-> "exit", changed |-> changed,
                                 msg |-> msg, res |-> res, err |-> NoErr,
                                 diff |-> <<>>]),
              !.pc = "done"]

\* a fail_json that first deletes what an accepted Create may have made
fail_json_RollsBack(c, msg, e) ==
    LET undone == IF Len(c.rpcs) >= 2 /\ c.rpcs[2].rpc = "Create"
                     /\ c.rpcs[2].res = "ok"
                  THEN [c EXCEPT !.rpcs =
                           Append(@, [rpc |-> "Delete", arg |-> c.operation.rid,
                                      res |-> "ok"])]
                  ELSE c
    IN  [undone EXCEPT !.out = Append(@, [type |-> "fail", changed |-> FALSE,
                                          msg |-> msg, res |-> EmptyDict,
                                          err |-> e, diff |-> <<>>]),
                       !.pc = "done"]

\* a fail_json that returns to its caller instead of exiting
fail_json_Returns(c, msg, e) ==
    [c EXCEPT !.out = Append(@, [type |-> "fail", changed |-> FALSE,
                                 msg |-> msg, res |-> EmptyDict, err |-> e,
                                 diff |-> <<>>])]

\* module.fail_json(msg=...): one failure message naming the failed step
\* and the exception, and the process exits
fail_json(c, msg, e) ==
    [c EXCEPT !.out = Append(@, [type |-> "fail", changed |-> FALSE,
                                 msg |-> msg, res |-> EmptyDict, err |-> e,
                                 diff |-> <<>>]),
              !.pc = "done"]

\* a unary call raised in a helper: its except clause calls fail_json with
\* the exception; `wire` keeps the attempts the transport made for it
raise(c, msg, f) == [fail_json(c, msg, f.err) EXCEPT !.wire = f.attempts]

\* the diff= argument of the exit_json that just ended c
with_diff(c, d) == [c EXCEPT !.out[Len(c.out)].diff = d]

\* the located resource needs nothing for state=present
Matched(k, c) ==
    /\ c.located # EmptyDict
    /\ IF k = "disk" THEN ~DiskDiffers(c.located, c.params)
       ELSE c.located.status # "STOPPED"

Summary(k, c) ==
    [valid |-> ~c.disturbed, state |-> c.state, params |-> c.params,
     ok |-> (c.out # <<>> /\ c.out[Len(c.out)].type = "exit"),
     changed |-> (c.out # <<>> /\ c.out[Len(c.out)].changed),
     matched |-> (c.state = "present" /\ Matched(k, c))]

---------------------------------------------------------------------------
(* The remote *)

NoParams == [size |-> 0, description |-> "", labels |-> Lempty,
             type_id |-> ""]

FreeOp == [st |-> "free", type |-> "", rid |-> 0, req |-> NoParams,
           mask |-> {}, err |-> NoErr]

\* the resource a completed Create stores: the requested fields; a created
\* instance is started
Created(k, req) ==
    [exists |-> TRUE, size |-> req.size, description |-> req.description,
     labels |-> req.labels, type_id |-> req.type_id,
     status |-> IF k = "instance" THEN "RUNNING" ELSE "READY"]

\* the remote after operation op completed as requested
Apply(k, rem, op) ==
    CASE op.type = "Create" ->
            [rem EXCEPT ![op.rid] = Created(k, op.req)]
      [] op.type = "Update" ->
            [rem EXCEPT ![op.rid].size =
                            IF "size" \in op.mask THEN op.req.size ELSE @,
                        ![op.rid].description =
                            IF "description" \in op.mask
                            THEN op.req.description ELSE @,
                        ![op.rid].labels =
                            IF "labels" \in op.mask THEN op.req.labels
                            ELSE @]
      [] op.type = "Delete" -> [rem EXCEPT ![op.rid] = NoRes]
      [] op.type = "Stop"   -> [rem EXCEPT ![op.rid].status = "STOPPED"]
      [] OTHER              -> [rem EXCEPT ![op.rid].status = "RUNNING"]

\* ids the remote cannot hand to a new resource
Taken(rem, os) ==
    {r \in ResIds : rem[r].exists
                    \/ \E o \in OpIds : os[o].st = "pending"
                                        /\ os[o].type = "Create"
                                        /\ os[o].rid = r}

FreshId(rem, os) ==
    CHOOSE r \in ResIds \ Taken(rem, os) :
        \A q \in ResIds \ Taken(rem, os) : r <= q

\* the call that waits for operation o, if any
Waiting(o) == {p \in AllProcs : call[p].pc = "wait" /\ call[p].operation.id = o}

Running(p) == call[p].pc \notin {"idle", "done"}

\* resources the disk and the instance API may hold before the first call
InitResources(k) ==
    IF k = "disk"
    THEN {[exists |-> TRUE, size |-> s, description |-> "", labels |-> l,
           type_id |-> "network-hdd",
           status |-> "READY"] : s \in {4}, l \in {Lempty, Lab}}
    ELSE {[exists |-> TRUE, size |-> 0, description |-> "", labels |-> Lempty,
           type_id |-> "",
           status |-> st] : st \in Statuses}

---------------------------------------------------------------------------
(* Bookkeeping shared by the actions *)

\* process p moves to c; a call that ended becomes `last`
Step(p, c) ==
    /\ call' = [call EXCEPT ![p] = c]
    /\ last' = IF c.pc = "done" THEN Summary(kind, c) ELSE last
    /\ quiet' = IF c.pc = "done" THEN TRUE ELSE quiet

\* the remote changed other than through the operation `own` waits for:
\* the running calls no longer follow their predecessor undisturbed
Disturbed(own) ==
    [p \in AllProcs |->
        IF p \in own \/ ~Running(p) THEN call[p]
        ELSE [call[p] EXCEPT !.follows = NoCall, !.disturbed = TRUE]]

---------------------------------------------------------------------------
(* Initial state *)

Init ==
    /\ kind \in Kinds
    /\ remote \in {r \in [ResIds -> InitResources(kind) \cup {NoRes}] :
                     \A i \in ResIds :
                        /\ i > MaxPre => r[i] = NoRes
                        /\ i > 1 /\ r[i].exists => r[i - 1].exists}
    /\ ops = [o \in OpIds |-> FreeOp]
    /\ call = [p \in AllProcs |-> IdleCall]
    /\ procs = {1}
    /\ ncalls = 0
    /\ nenv = 0
    /\ last = NoCall
    /\ quiet = FALSE

---------------------------------------------------------------------------
(* main(): the arguments are validated; when they pass, the clients are   *)
(* built and main is about to call _find                                   *)

StartCall(p) ==
    /\ call[p].pc \in {"idle", "done"}
    /\ ncalls < MaxCalls
    /\ \E inp \in Inputs(kind), supplied \in CredChoices :
          LET c == [IdleCall EXCEPT !.creds = supplied]
              checked == AnsibleModule(supplied)
          IN  call' = [call EXCEPT ![p] =
                          IF checked = "ok"
                          THEN [c EXCEPT !.pc = "find",
                                         !.state = inp[1],
                                         !.params = inp[2],
                                         !.clients =
                                            [resource |-> client,
                                             operation |-> client],
                                         !.follows = IF quiet THEN last
                                                     ELSE NoCall]
                          ELSE fail_json(c, checked, NoErr)]
    /\ ncalls' = ncalls + 1
    /\ UNCHANGED <<kind, remote, ops, procs, nenv, last, quiet>>

\* _find: one List RPC; an exception ends the call in fail_json
Find(p) ==
    /\ call[p].pc = "find"
    /\ LET c == call[p]
           response == ListResponse(kind, remote)
       IN  \/ Step(p, [c EXCEPT !.request = ListRequest(kind),
                                !.response = response,
                                !.located = find(response),
                                !.listed = TRUE,
                                !.rpcs = Append(@, Rpc("List", 0, "ok")),
                                !.pc = "match"])
           \/ \E f \in TransportFailures :
                 Step(p, raise([c EXCEPT !.request = ListRequest(kind),
                                         !.rpcs =
                                    Append(@, Rpc("List", 0, "error"))],
                               "find", f))
    /\ UNCHANGED <<kind, remote, ops, procs, ncalls, nenv>>

\* a mutating RPC of the branch, with request id `arg` (none for Create):
\* the remote accepts it and returns an operation on resource `rid`, or the
\* RPC raises and the call ends in fail_json
Mutate(p, name, arg, rid, what) ==
    LET c == call[p]
        mask == IF name = "Update" THEN UpdateMask(c.located, c.params)
                ELSE {}
    IN  \/ /\ \E o \in OpIds :
                 /\ ops[o].st = "free"
                 /\ \A q \in OpIds : ops[q].st = "free" => o <= q
                 /\ ops' = [ops EXCEPT ![o] =
                               [st |-> "pending", type |-> name, rid |-> rid,
                                req |-> c.params, mask |-> mask,
                                err |-> NoErr]]
                 /\ Step(p, [c EXCEPT !.operation = [id |-> o, rid |-> rid],
                                      !.update_mask = mask,
                                      !.rpcs = Append(@, Rpc(name, arg, "ok")),
                                      !.pc = "wait"])
        \/ /\ \E f \in TransportFailures :
                 Step(p, raise([c EXCEPT !.update_mask = mask,
                                         !.rpcs =
                                    Append(@, Rpc(name, arg, "error"))],
                               what, f))
           /\ UNCHANGED ops

\* _create
Create(p) ==
    /\ call[p].pc = "match"
    /\ Main(kind, call[p]) = "create"
    /\ IF ResIds \ Taken(remote, ops) # {}
       THEN Mutate(p, "Create", 0, FreshId(remote, ops), "create")
       ELSE /\ \E f \in TransportFailures :
                 Step(p, raise([call[p] EXCEPT !.rpcs =
                                    Append(@, Rpc("Create", 0, "error"))],
                               "create", f))
            /\ UNCHANGED ops
    /\ UNCHANGED <<kind, remote, procs, ncalls, nenv>>

\* _update (disk only)
Update(p) ==
    /\ call[p].pc = "match"
    /\ Main(kind, call[p]) = "update"
    /\ Mutate(p, "Update", call[p].located.id, call[p].located.id, "update")
    /\ UNCHANGED <<kind, remote, procs, ncalls, nenv>>

\* _delete
Delete(p) ==
    /\ call[p].pc = "match"
    /\ Main(kind, call[p]) = "delete"
    /\ Mutate(p, "Delete", call[p].located.id, call[p].located.id, "delete")
    /\ UNCHANGED <<kind, remote, procs, ncalls, nenv>>

\* _start
Start(p) ==
    /\ call[p].pc = "match"
    /\ Main(kind, call[p]) = "start"
    /\ Mutate(p, "Start", call[p].located.id, call[p].located.id, "start")
    /\ UNCHANGED <<kind, remote, procs, ncalls, nenv>>

\* _restart
Restart(p) ==
    /\ call[p].pc = "match"
    /\ Main(kind, call[p]) = "restart"
    /\ Mutate(p, "Restart", call[p].located.id, call[p].located.id, "restart")
    /\ UNCHANGED <<kind, remote, procs, ncalls, nenv>>

\* _stop
Stop(p) ==
    /\ call[p].pc = "match"
    /\ Main(kind, call[p]) = "stop"
    /\ Mutate(p, "Stop", call[p].located.id, call[p].located.id, "stop")
    /\ UNCHANGED <<kind, remote, procs, ncalls, nenv>>

\* the branches that exit at once: exit_json(changed=False, ...) with the
\* located resource (present) or with none (absent)
ExitUnchanged(p) ==
    /\ call[p].pc = "match"
    /\ Main(kind, call[p]) \in {"exists", "not_exists"}
    /\ Step(p, exit_json(call[p], Changed(Main(kind, call[p])),
                         ExitMsg(kind, call[p].state, Main(kind, call[p])),
                         call[p].located))
    /\ UNCHANGED <<kind, remote, ops, procs, ncalls, nenv>>

\* restarted / stopped with nothing located: fail_json("not found ...")
NotFound(p) ==
    /\ call[p].pc = "match"
    /\ Main(kind, call[p]) = "not_found"
    /\ Step(p, fail_json(call[p], "not found", NoErr))
    /\ UNCHANGED <<kind, remote, ops, procs, ncalls, nenv>>

\* the operation dict a poll returns
OpDict(op) == [done |-> op.st \in {"done", "error"}, err |-> op.err]

\* _wait that goes round again whatever the poll said
wait_NeverBreaks(operation) == "again"

\* _wait that returns at once, whatever the poll said
wait_ReturnsAtOnce(operation) == "break"

\* _wait that breaks on the first poll that brought no error, done or not
wait_BreaksEarly(operation) ==
    IF operation.done /\ operation.err # NoErr THEN "raise" ELSE "break"

\* _wait without the test for 'error'
wait_IgnoresError(operation) ==
    IF operation.done THEN "break" ELSE "again"

\* the body of the loop of _wait on the polled dict: "raise" the
\* OperationError, "break", or go round "again"
wait(operation) ==
    IF operation.done
    THEN IF operation.err # NoErr THEN "raise" ELSE "break"
    ELSE "again"

\* _wait: one poll of the operation per step.  done=false: poll again;
\* done=true with an error: OperationError, caught, fail_json; done=true
\* without: return to main, which either exits (absent) or goes on to _get.
\* A poll that raises ends the call in fail_json.
Wait(p) ==
    /\ call[p].pc = "wait"
    /\ LET c == call[p]
           o == c.operation.id
           operation == OpDict(ops[o])
           polled(res) == [c EXCEPT !.rpcs = Append(@, Rpc("OpGet", o, res)),
                                    !.polled = operation]
       IN  \/ /\ wait(operation) = "again"
              /\ c.polls < MaxPolls
              /\ Step(p, [polled("pending") EXCEPT !.polls = @ + 1])
              /\ UNCHANGED ops
           \/ /\ wait(operation) = "break"
              /\ Step(p, IF AfterWait(kind, c.state) = "exit"
                         THEN exit_json(polled("done"),
                                        Changed(Main(kind, c)),
                                        ExitMsg(kind, c.state, Main(kind, c)),
                                        EmptyDict)
                         ELSE [polled("done") EXCEPT
                                  !.pc = AfterWait(kind, c.state)])
              /\ ops' = [ops EXCEPT ![o] = IF @.st = "pending" THEN @
                                           ELSE FreeOp]
           \/ /\ wait(operation) = "raise"
              /\ Step(p, fail_json(polled("failed"), "operation",
                                   operation.err))
              /\ ops' = [ops EXCEPT ![o] = FreeOp]
           \/ /\ \E f \in TransportFailures :
                    Step(p, raise([c EXCEPT !.rpcs =
                                      Append(@, Rpc("OpGet", o, "error"))],
                                  "operation", f))
              /\ ops' = [ops EXCEPT ![o] = IF @.st = "pending" THEN @
                                           ELSE FreeOp]
    /\ UNCHANGED <<kind, remote, procs, ncalls, nenv>>

\* _get as the argument of the final exit_json: after a returned _wait
\* (changed=True), or at once for stopped with status STOPPED
\* (changed=False).  The id is the create operation's metadata id after a
\* create and the located id otherwise.
Get(p) ==
    /\ \/ call[p].pc = "get"
       \/ call[p].pc = "match" /\ Main(kind, call[p]) = "stopped_already"
    /\ LET c == call[p]
           branch == Main(kind, c)
           id == IF branch = "create" THEN c.operation.rid ELSE c.located.id
       IN  \/ \E f \in TransportFailures :
                 Step(p, raise([c EXCEPT !.rpcs =
                                   Append(@, Rpc("Get", id, "error"))],
                               "get", f))
           \/ /\ remote[id].exists
              /\ Step(p, with_diff(
                            exit_json([c EXCEPT !.rpcs =
                                          Append(@, Rpc("Get", id, "ok"))],
                                      Changed(branch),
                                      ExitMsg(kind, c.state, branch),
                                      message_to_dict(id, remote[id])),
                            Diff(branch, c.located, c.params)))
    /\ UNCHANGED <<kind, remote, ops, procs, ncalls, nenv>>

---------------------------------------------------------------------------
(* The environment *)

\* a pending operation ends: done, with its effect applied as requested, or
\* in error, with no effect.  An operation nobody waits for is forgotten.
OpComplete(o) ==
    /\ ops[o].st = "pending"
    /\ \/ /\ ops[o].type = "Create" \/ remote[ops[o].rid].exists
          /\ remote' = Apply(kind, remote, ops[o])
          /\ ops' = [ops EXCEPT ![o] = IF Waiting(o) = {} THEN FreeOp
                                       ELSE [@ EXCEPT !.st = "done"]]
          /\ call' = Disturbed(Waiting(o))
          /\ quiet' = FALSE
       \/ /\ \E e \in ErrPayloads :
                ops' = [ops EXCEPT ![o] = IF Waiting(o) = {} THEN FreeOp
                                          ELSE [@ EXCEPT !.st = "error",
                                                         !.err = e]]
          /\ UNCHANGED <<remote, call, quiet>>
    /\ UNCHANGED <<kind, procs, ncalls, nenv, last>>

\* the change somebody else makes to an existing resource: a running or
\* failed instance is stopped and a stopped one started; a disk is resized
Touched(k, r) ==
    IF k = "instance"
    THEN [r EXCEPT !.status = IF @ = "STOPPED" THEN "RUNNING" ELSE "STOPPED"]
    ELSE [r EXCEPT !.size = IF @ = 4 THEN 10 ELSE 4]

\* somebody else changes the remote while or after a call (changes before
\* the first call are initial states): deletes a resource of the name, adds
\* one, or changes one
EnvChange ==
    /\ nenv < MaxEnv
    /\ ncalls > 0
    /\ \/ \E r \in ResIds :
             /\ remote[r].exists
             /\ \/ remote' = [remote EXCEPT ![r] = NoRes]
                \/ remote' = [remote EXCEPT ![r] = Touched(kind, @)]
       \/ /\ ResIds \ Taken(remote, ops) # {}
          /\ remote' = [remote EXCEPT ![FreshId(remote, ops)] =
                           Created(kind, NoParams)]
    /\ nenv' = nenv + 1
    /\ call' = Disturbed({})
    /\ quiet' = FALSE
    /\ UNCHANGED <<kind, ops, procs, ncalls, last>>

---------------------------------------------------------------------------

Next ==
    \/ \E p \in procs : StartCall(p)
    \/ \E p \in procs : Find(p)
    \/ \E p \in procs : Create(p)
    \/ \E p \in procs : Update(p)
    \/ \E p \in procs : Delete(p)
    \/ \E p \in procs : Start(p)
    \/ \E p \in procs : Restart(p)
    \/ \E p \in procs : Stop(p)
    \/ \E p \in procs : ExitUnchanged(p)
    \/ \E p \in procs : NotFound(p)
    \/ \E p \in procs : Wait(p)
    \/ \E p \in procs : Get(p)
    \/ \E o \in OpIds : OpComplete(o)
    \/ EnvChange

Spec == Init /\ [][Next]_vars

\* two callers run the module at the same time for one name that no
\* resource of the folder has yet: nothing in main orders one process after
\* the other
InitConcurrent ==
    /\ kind \in Kinds
    /\ remote = [r \in ResIds |-> NoRes]
    /\ ops = [o \in OpIds |-> FreeOp]
    /\ call = [p \in AllProcs |-> IdleCall]
    /\ procs = AllProcs
    /\ ncalls = 0
    /\ nenv = 0
    /\ last = NoCall
    /\ quiet = FALSE

\* main() started with state=present and the same desired fields
StartPresent(p) ==
    /\ StartCall(p)
    /\ call'[p].state = "present"
    /\ call'[p].params = BaseParams(kind)

\* the steps such calls can take; the other caller is the only one who
\* changes the remote besides the call itself
NextConcurrent ==
    \/ \E p \in procs : StartPresent(p)
    \/ \E p \in procs : Find(p)
    \/ \E p \in procs : Create(p)
    \/ \E p \in procs : ExitUnchanged(p)
    \/ \E p \in procs : Wait(p)
    \/ \E p \in procs : Get(p)
    \/ \E o \in OpIds : OpComplete(o)

SpecConcurrent == InitConcurrent /\ [][NextConcurrent]_vars

\* a poll of _wait that returned the operation's record
Polled(p) ==
    /\ Wait(p)
    /\ call'[p].rpcs[Len(call'[p].rpcs)].res # "error"

\* the statement process p is at in main; a poll counts when it returned
MainStep(p) ==
    \/ Find(p)
    \/ Create(p)
    \/ Update(p)
    \/ Delete(p)
    \/ Start(p)
    \/ Restart(p)
    \/ Stop(p)
    \/ ExitUnchanged(p)
    \/ NotFound(p)
    \/ Polled(p)
    \/ Get(p)

\* a process that runs main keeps running it, every RPC returns or raises,
\* the polls of _wait return, and every operation of the remote ends
Fairness ==
    /\ \A p \in AllProcs : WF_vars(MainStep(p))
    /\ \A o \in OpIds : WF_vars(OpComplete(o))

\* the first call of a behaviour
StartFirst(p) == StartCall(p) /\ ncalls = 0

\* one call from its start to its end, the remote and the others at work
NextLive ==
    \/ \E p \in procs : StartFirst(p)
    \/ \E p \in procs : MainStep(p)
    \/ \E p \in procs : Wait(p)
    \/ \E o \in OpIds : OpComplete(o)
    \/ EnvChange

SpecLive == Init /\ [][NextLive]_vars /\ Fairness

---------------------------------------------------------------------------
(* Vocabulary of the properties *)

NoMutating(c) == \A i \in DOMAIN c.rpcs : c.rpcs[i].rpc \notin MutatingRpcs

Count(c, name) == Cardinality({i \in DOMAIN c.rpcs : c.rpcs[i].rpc = name})

\* no RPC of the call raised and no operation ended in error
NoFailure(c) == \A i \in DOMAIN c.rpcs : c.rpcs[i].res \notin {"error", "failed"}

Ended(c) == c.pc = "done"

Succeeded(c) == Ended(c) /\ Len(c.out) = 1 /\ c.out[1].type = "exit"

Unchanged(c) == Succeeded(c) /\ ~c.out[1].changed

\* the call follows, undisturbed and with the same input, a call that ended
Repeats(c) ==
    /\ c.follows.valid
    /\ c.follows.state = c.state
    /\ c.follows.params = c.params
    /\ ~c.disturbed

\* the RPCs of c after the List are: one mutating RPC `name` on `rid`, polls
\* of its operation of which only the last may say done, and then at most
\* one Get of `gid`, issued only after the poll that said done
Funnel(c, name, rid, gid) ==
    LET n == Len(c.rpcs)
    IN  /\ n >= 1 /\ c.rpcs[1] = Rpc("List", 0, "ok")
        /\ n >= 2 => c.rpcs[2].rpc = name /\ c.rpcs[2].arg = rid
        /\ \A i \in 3..n :
              \/ /\ c.rpcs[i].rpc = "OpGet"
                 /\ c.rpcs[i].arg = c.operation.id
                 /\ c.rpcs[i - 1].res \in {"ok", "pending"}
                 /\ c.rpcs[i - 1].rpc \in {name, "OpGet"}
              \/ /\ c.rpcs[i].rpc = "Get"
                 /\ c.rpcs[i].arg = gid
                 /\ c.rpcs[i - 1] = Rpc("OpGet", c.operation.id, "done")
                 /\ i = n

\* the call went all the way through the funnel and reported the change
Funnelled(c, name, rid, gid) ==
    /\ Funnel(c, name, rid, gid)
    /\ Len(c.rpcs) >= 4
    /\ c.rpcs[2] = Rpc(name, rid, "ok")
    /\ c.rpcs[Len(c.rpcs)] = Rpc("Get", gid, "ok")
    /\ Count(c, name) = 1
    /\ Count(c, "Get") = 1
    /\ Succeeded(c)
    /\ c.out[1].changed
    /\ c.out[1].res.id = gid

---------------------------------------------------------------------------
(* C1 - idempotence of present.  A call with state=present whose located  *)
(* resource matches the desired state (disk: size, description and labels *)
(* equal; instance: exists, status not STOPPED) ends with changed=false    *)
(* and issues no mutating RPC; a call that repeats it with the same        *)
(* desired state, the remote untouched in between, locates a matching      *)
(* resource again, issues no mutating RPC and ends with changed=false.     *)
C1_IdempotentPresent ==
    \A p \in AllProcs :
       LET c == call[p]
       IN  /\ (c.listed /\ c.state = "present" /\ Matched(kind, c))
                 => /\ NoMutating(c)
                    /\ c.rpcs = <<Rpc("List", 0, "ok")>>
                    /\ Ended(c) => Unchanged(c) /\ c.out[1].res = c.located
           /\ (c.listed /\ c.state = "present" /\ Repeats(c)
                        /\ c.follows.matched)
                 => /\ Matched(kind, c)
                    /\ NoMutating(c)
                    /\ Ended(c) => Unchanged(c)

\* both calls of such a pair have ended, changed=false twice
C1_Witness ==
    \E p \in AllProcs :
       /\ call[p].state = "present" /\ Repeats(call[p])
       /\ call[p].follows.matched /\ call[p].follows.ok
       /\ ~call[p].follows.changed
       /\ Unchanged(call[p])

---------------------------------------------------------------------------
(* C2 - one-step convergence.  A call that repeats, undisturbed and with   *)
(* the same desired state, a successful call with state present, absent or *)
(* stopped issues no mutating RPC and, unless one of its RPCs raises,      *)
(* ends with changed=false.                                                *)
C2_OneStepConvergence ==
    \A p \in AllProcs :
       LET c == call[p]
       IN  (Repeats(c) /\ c.follows.ok
                       /\ c.state \in {"present", "absent", "stopped"})
              => /\ NoMutating(c)
                 /\ (Ended(c) /\ NoFailure(c)) => Unchanged(c)

---------------------------------------------------------------------------
(* C3 - create path.  A call with state=present whose locator reported no *)
(* resource issues, after the List, one Create, then polls of that         *)
(* operation, then - only after a poll said done - one Get of the id in    *)
(* the create operation's metadata; when nothing fails it ends with        *)
(* changed=true and the fetched resource.                                  *)
C3_CreatePath ==
    \A p \in AllProcs :
       LET c == call[p]
       IN  (c.listed /\ c.state = "present" /\ c.located = EmptyDict)
              => /\ Funnel(c, "Create", 0, c.operation.rid)
                 /\ Count(c, "Create") <= 1
                 /\ (Ended(c) /\ NoFailure(c))
                       => Funnelled(c, "Create", 0, c.operation.rid)
                 /\ Succeeded(c) => c.out[1].changed /\ c.out[1].msg = "created"

C3_Witness ==
    \E p \in AllProcs :
       LET c == call[p]
       IN  /\ c.listed /\ c.state = "present" /\ c.located = EmptyDict
           /\ Funnelled(c, "Create", 0, c.operation.rid)
           /\ c.polls > 0

---------------------------------------------------------------------------
(* C4 - operation wait terminal semantics.  Once a poll returned          *)
(* done=true with an error payload, the call has ended with a single       *)
(* failure that comes from the OperationError and carries the payload's    *)
(* code and message; once a poll returned done=true without an error, the  *)
(* wait returned: the call is past it and reports no operation failure.    *)
C4_WaitTerminal ==
    \A p \in AllProcs :
       LET c == call[p]
       IN  /\ (c.polled.done /\ c.polled.err # NoErr)
                 => /\ Ended(c)
                    /\ Len(c.out) = 1
                    /\ c.out[1].type = "fail"
                    /\ c.out[1].msg = "operation"
                    /\ c.out[1].err.type = "operation"
                    /\ c.out[1].err.code = c.polled.err.code
                    /\ c.out[1].err.message = c.polled.err.message
           /\ (c.polled.done /\ c.polled.err = NoErr)
                 => /\ c.pc \in {"get", "done"}
                    /\ \A i \in DOMAIN c.out : c.out[i].msg # "operation"

C4_Witness ==
    \E p \in AllProcs :
       /\ call[p].polled.done
       /\ call[p].polled.err \in ErrPayloads
       /\ Ended(call[p])
       /\ call[p].out[1].err = call[p].polled.err

---------------------------------------------------------------------------
(* C5 - restarted or stopped with nothing located is fatal.  Such an      *)
(* instance call issues no RPC but its List and ends with the one failure  *)
(* "not found", never with a success.                                      *)
C5_AbsentIsFatal ==
    \A p \in AllProcs :
       LET c == call[p]
       IN  (c.listed /\ c.state \in {"restarted", "stopped"}
                     /\ c.located = EmptyDict)
              => /\ c.rpcs = <<Rpc("List", 0, "ok")>>
                 /\ ~Succeeded(c)
                 /\ Ended(c) => /\ Len(c.out) = 1
                                /\ c.out[1].type = "fail"
                                /\ c.out[1].msg = "not found"

C5_Witness ==
    \E p \in AllProcs :
       /\ call[p].listed
       /\ call[p].state \in {"restarted", "stopped"}
       /\ call[p].located = EmptyDict
       /\ Ended(call[p])
       /\ call[p].out[1].msg = "not found"

---------------------------------------------------------------------------
(* C6 - restarted on a stopped instance starts it.  With state=restarted  *)
(* and located status STOPPED the call issues Start on the located id and  *)
(* never Restart, waits, fetches the instance by id and, when nothing      *)
(* fails, ends with changed=true.                                          *)
C6_RestartedStartsStopped ==
    \A p \in AllProcs :
       LET c == call[p]
       IN  (c.listed /\ c.state = "restarted" /\ c.located # EmptyDict
                     /\ c.located.status = "STOPPED")
              => /\ Funnel(c, "Start", c.located.id, c.located.id)
                 /\ Count(c, "Restart") = 0
                 /\ (Ended(c) /\ NoFailure(c))
                       => Funnelled(c, "Start", c.located.id, c.located.id)
                 /\ Succeeded(c) => c.out[1].changed

C6_Witness ==
    \E p \in AllProcs :
       /\ call[p].listed /\ call[p].state = "restarted"
       /\ call[p].located.status = "STOPPED"
       /\ Funnelled(call[p], "Start", call[p].located.id, call[p].located.id)

---------------------------------------------------------------------------
(* C7 - stopped on a stopped instance.  With state=stopped and located    *)
(* status STOPPED the call issues no Stop and no other mutating RPC, and   *)
(* the one outcome it reports, when its fetch does not fail, is            *)
(* changed=false.                                                          *)
C7_StoppedAlreadyStopped ==
    \A p \in AllProcs :
       LET c == call[p]
       IN  (c.listed /\ c.state = "stopped" /\ c.located # EmptyDict
                     /\ c.located.status = "STOPPED")
              => /\ NoMutating(c)
                 /\ Ended(c) => Len(c.out) = 1
                 /\ Succeeded(c) => ~c.out[1].changed
                 /\ (Ended(c) /\ NoFailure(c)) => Unchanged(c)

C7_Witness ==
    \E p \in AllProcs :
       /\ call[p].listed /\ call[p].state = "stopped"
       /\ call[p].located.status = "STOPPED"
       /\ Unchanged(call[p])
       /\ Count(call[p], "Get") = 1

---------------------------------------------------------------------------
(* C8 - exactly one terminal outcome.  A call that has ended reported     *)
(* exactly one outcome, a success descriptor or a failure message, and a   *)
(* call that has not ended reported none.                                  *)
C8_OneOutcome ==
    \A p \in AllProcs :
       LET c == call[p]
       IN  /\ Ended(c) => /\ Len(c.out) = 1
                          /\ c.out[1].type \in {"exit", "fail"}
           /\ ~Ended(c) => c.out = <<>>

\* a call ended in a branch whose fail or exit step is followed by another
\* exit step in the code
C8_Witness ==
    \E p \in AllProcs :
       /\ call[p].listed
       /\ call[p].state \in {"restarted", "stopped"}
       /\ Main(kind, call[p]) \in {"not_found", "stopped_already"}
       /\ Ended(call[p])
       /\ Len(call[p].out) = 1

---------------------------------------------------------------------------
(* C9 - locator, zero or one match.  _find returns the empty dict when    *)
(* the List response holds no entry and that entry when it holds one.      *)
C9_FindZeroOrOne ==
    \A p \in AllProcs :
       LET c == call[p]
       IN  c.listed =>
              /\ Len(c.response) = 0 => c.located = EmptyDict
              /\ Len(c.response) = 1 => /\ c.located = c.response[1]
                                        /\ c.located # EmptyDict

C9_Witness ==
    \E p \in AllProcs :
       /\ call[p].listed
       /\ Len(call[p].response) = 1
       /\ call[p].located = call[p].response[1]
       /\ call[p].located.id > 0

---------------------------------------------------------------------------
(* C10 - locator, more than one match.  When the List response holds more *)
(* than one entry, _find does not report the resource as absent: a call    *)
(* that got such a response either ended in a locator failure or holds     *)
(* one of the entries as its located resource.                             *)
C10_FindManyDefined ==
    \A p \in AllProcs :
       LET c == call[p]
       IN  (c.listed /\ Len(c.response) > 1)
              => \/ c.located \in {c.response[i] : i \in DOMAIN c.response}
                 \/ /\ Ended(c)
                    /\ c.out[1].type = "fail"
                    /\ c.out[1].msg = "find"

---------------------------------------------------------------------------
(* C11 - the List of every lookup has page size 1.  Every List a call     *)
(* issued, for a disk or for an instance, was requested with page_size=1,  *)
(* and the response the locator inspected holds at most one entry.         *)
C11_ListPageSizeOne ==
    \A p \in AllProcs :
       LET c == call[p]
       IN  Count(c, "List") > 0
              => /\ c.request.page_size = 1
                 /\ c.listed => Len(c.response) <= 1

---------------------------------------------------------------------------
(* Vocabulary of the disk update *)

\* the fields among size, description and labels whose desired value
\* differs from the located one
DifferingFields(disk, params) ==
    (IF disk.size # IntToStr(params.size) THEN {"size"} ELSE {})
    \cup (IF disk.description # params.description THEN {"description"}
          ELSE {})
    \cup (IF {disk.labels[i] : i \in DOMAIN disk.labels}
             # {params.labels[i] : i \in DOMAIN params.labels}
          THEN {"labels"} ELSE {})

\* the diff has a line that is removed or added
HasChange(diff) == \E i \in DOMAIN diff : diff[i].tag \in {"-", "+"}

Has(diff, tag, line) == \E i \in DOMAIN diff : diff[i] = [tag |-> tag, line |-> line]

\* a located disk that state=present has to update
NeedsUpdate(c) ==
    /\ kind = "disk" /\ c.listed /\ c.state = "present"
    /\ c.located # EmptyDict
    /\ DifferingFields(c.located, c.params) # {}

---------------------------------------------------------------------------
(* C12 - disk update path.  With state=present and a located disk whose   *)
(* size, description or labels differ from the desired ones, the call      *)
(* issues one Update on the located id, polls the operation, and - only    *)
(* after a poll said done - fetches the disk by that id; when nothing      *)
(* fails it ends with changed=true, the disk as fetched after the update   *)
(* (equal to the desired state when nobody else touched it) and a diff     *)
(* that shows the located values as removed and the desired as added.      *)
C12_DiskUpdatePath ==
    \A p \in AllProcs :
       LET c == call[p]
           d == c.out[1].diff
       IN  NeedsUpdate(c)
              => /\ Funnel(c, "Update", c.located.id, c.located.id)
                 /\ Count(c, "Update") <= 1
                 /\ (Ended(c) /\ NoFailure(c))
                       => /\ Funnelled(c, "Update", c.located.id,
                                       c.located.id)
                          /\ c.out[1].msg = "updated"
                          /\ ~c.disturbed
                                => DifferingFields(c.out[1].res, c.params) = {}
                          /\ c.located.size # IntToStr(c.params.size)
                                => /\ Has(d, "-", Line(1, "size", "",
                                                c.located.size, FALSE))
                                   /\ Has(d, "+", Line(1, "size", "",
                                                IntToStr(c.params.size),
                                                FALSE))
                          /\ c.located.description # c.params.description
                                => /\ Has(d, "-", Line(1, "description",
                                                c.located.description, <<>>,
                                                TRUE))
                                   /\ Has(d, "+", Line(1, "description",
                                                c.params.description, <<>>,
                                                TRUE))
                          /\ c.located.description = c.params.description
                                => Has(d, " ", Line(1, "description",
                                              c.params.description, <<>>,
                                              TRUE))

C12_Witness ==
    \E p \in AllProcs :
       /\ NeedsUpdate(call[p])
       /\ Funnelled(call[p], "Update", call[p].located.id,
                    call[p].located.id)
       /\ call[p].polls > 0
       /\ "size" \in DifferingFields(call[p].located, call[p].params)
       /\ HasChange(call[p].out[1].diff)

---------------------------------------------------------------------------
(* C13 - the field mask of Update.  As claimed: the mask of every Update  *)
(* names exactly the fields whose desired value differs from the located   *)
(* one.                                                                    *)
C13_MaskOnlyDiffering ==
    \A p \in AllProcs :
       LET c == call[p]
       IN  Count(c, "Update") > 0
              => c.update_mask = DifferingFields(c.located, c.params)

(* C13, amended - the mask of every Update names size, description and    *)
(* labels, all three whether or not their value differs (at least one      *)
(* does), and the remote is asked to store the desired value of each; a    *)
(* call that issued no Update built no mask.                               *)
C13_MaskAllMutable ==
    \A p \in AllProcs :
       LET c == call[p]
       IN  /\ Count(c, "Update") > 0
                 => /\ c.update_mask = {"size", "description", "labels"}
                    /\ DifferingFields(c.located, c.params) # {}
                    /\ DifferingFields(c.located, c.params)
                          \subseteq c.update_mask
                    /\ c.pc = "wait"
                          => \/ ops[c.operation.id].st = "error"
                             \/ /\ ops[c.operation.id].mask = c.update_mask
                                /\ ops[c.operation.id].req = c.params
           /\ Count(c, "Update") = 0 => c.update_mask = {}

\* an Update whose mask names a field that does not differ
C13_Witness ==
    \E p \in AllProcs :
       /\ Count(call[p], "Update") = 1
       /\ call[p].rpcs[2].res = "ok"
       /\ DifferingFields(call[p].located, call[p].params) = {"size"}
       /\ "labels" \in call[p].update_mask

---------------------------------------------------------------------------
---------------------------------------------------------------------------
(* Vocabulary of the instance branches *)

\* an instance call with the given state that located an instance
LocatedFor(c, state) ==
    /\ kind = "instance" /\ c.listed /\ c.state = state
    /\ c.located # EmptyDict

\* the call is in the funnel of `name` on the located id, issues `name` at
\* most once and none of the other mutating RPCs, and when nothing fails
\* it ends having gone all the way with changed=true
Path(c, name) ==
    /\ Funnel(c, name, c.located.id, c.located.id)
    /\ Count(c, name) <= 1
    /\ \A i \in DOMAIN c.rpcs :
          c.rpcs[i].rpc \in MutatingRpcs => c.rpcs[i].rpc = name
    /\ (Ended(c) /\ NoFailure(c))
          => Funnelled(c, name, c.located.id, c.located.id)

---------------------------------------------------------------------------
(* C15 - present starts a stopped instance.  An instance call with        *)
(* state=present that located an instance in status STOPPED issues one     *)
(* Start on the located id and no Create, polls the operation, then        *)
(* fetches the instance by that id; when nothing fails it ends with        *)
(* changed=true and the fetched instance.                                  *)
C15_PresentStartsStopped ==
    \A p \in AllProcs :
       LET c == call[p]
       IN  (LocatedFor(c, "present") /\ c.located.status = "STOPPED")
              => /\ Path(c, "Start")
                 /\ Count(c, "Create") = 0

C15_Witness ==
    \E p \in AllProcs :
       /\ LocatedFor(call[p], "present")
       /\ call[p].located.status = "STOPPED"
       /\ Funnelled(call[p], "Start", call[p].located.id,
                    call[p].located.id)

---------------------------------------------------------------------------
(* C16 - restarted restarts a running instance.  An instance call with    *)
(* state=restarted that located an instance in a status other than         *)
(* STOPPED issues one Restart on the located id, polls the operation,      *)
(* then fetches the instance by that id, and when nothing fails ends with  *)
(* changed=true; every restarted call that succeeds reports changed=true,  *)
(* a repeated one included.                                                *)
C16_RestartedRestarts ==
    \A p \in AllProcs :
       LET c == call[p]
       IN  /\ (LocatedFor(c, "restarted") /\ c.located.status # "STOPPED")
                 => Path(c, "Restart")
           /\ (kind = "instance" /\ c.state = "restarted" /\ Succeeded(c))
                 => /\ c.out[1].changed
                    /\ Count(c, "Restart") + Count(c, "Start") = 1

\* a restarted call that restarts again right after a restarted call
C16_Witness ==
    \E p \in AllProcs :
       /\ LocatedFor(call[p], "restarted")
       /\ call[p].located.status # "STOPPED"
       /\ Repeats(call[p])
       /\ call[p].follows.changed
       /\ Funnelled(call[p], "Restart", call[p].located.id,
                    call[p].located.id)

---------------------------------------------------------------------------
(* C17 - stopped stops a running instance.  An instance call with         *)
(* state=stopped that located an instance in a status other than STOPPED   *)
(* issues one Stop on the located id, polls the operation, then fetches    *)
(* the instance by that id, and when nothing fails ends with changed=true. *)
C17_StoppedStops ==
    \A p \in AllProcs :
       LET c == call[p]
       IN  (LocatedFor(c, "stopped") /\ c.located.status # "STOPPED")
              => Path(c, "Stop")

C17_Witness ==
    \E p \in AllProcs :
       /\ LocatedFor(call[p], "stopped")
       /\ call[p].located.status # "STOPPED"
       /\ Funnelled(call[p], "Stop", call[p].located.id,
                    call[p].located.id)
       /\ ~call[p].disturbed
       /\ call[p].out[1].res.status = "STOPPED"

---------------------------------------------------------------------------
(* C18 - delete path.  A call with state=absent that located a resource,  *)
(* disk or instance, issues one Delete on the located id and no other      *)
(* mutating RPC, polls the operation, and issues no Get; when nothing      *)
(* fails it ends, right after the poll that said done, with changed=true   *)
(* and no resource in the outcome.                                         *)
C18_DeletePath ==
    \A p \in AllProcs :
       LET c == call[p]
           n == Len(c.rpcs)
       IN  (c.listed /\ c.state = "absent" /\ c.located # EmptyDict)
              => /\ Funnel(c, "Delete", c.located.id, c.located.id)
                 /\ Count(c, "Delete") <= 1
                 /\ Count(c, "Get") = 0
                 /\ \A i \in DOMAIN c.rpcs :
                       c.rpcs[i].rpc \in MutatingRpcs
                          => c.rpcs[i].rpc = "Delete"
                 /\ (Ended(c) /\ NoFailure(c))
                       => /\ n >= 3
                          /\ c.rpcs[2] = Rpc("Delete", c.located.id, "ok")
                          /\ c.rpcs[n] = Rpc("OpGet", c.operation.id, "done")
                          /\ Succeeded(c)
                          /\ c.out[1].changed
                          /\ c.out[1].msg = "deleted"
                          /\ c.out[1].res = EmptyDict
                          /\ c.out[1].diff = <<>>

\* a delete that went through, with the resource gone from the remote
C18_Witness ==
    \E p \in AllProcs :
       /\ call[p].listed /\ call[p].state = "absent"
       /\ call[p].located # EmptyDict
       /\ Succeeded(call[p])
       /\ Count(call[p], "Delete") = 1
       /\ call[p].polls > 0
       /\ ~remote[call[p].located.id].exists

---------------------------------------------------------------------------
\* a call with state=absent that located nothing
AbsentNoop(c) == c.listed /\ c.state = "absent" /\ c.located = EmptyDict

\* what such a call issued and how it ended
AbsentNoopOutcome ==
    \A p \in AllProcs :
       LET c == call[p]
       IN  AbsentNoop(c)
              => /\ c.rpcs = <<Rpc("List", 0, "ok")>>
                 /\ c.operation = NoOperation
                 /\ c.pc \in {"match", "done"}
                 /\ Ended(c)
                       => /\ Succeeded(c)
                          /\ ~c.out[1].changed
                          /\ c.out[1].msg = "not exists"
                          /\ c.out[1].res = EmptyDict
                          /\ c.out[1].diff = <<>>

\* a step of such a call leaves the remote and the operations alone
AbsentNoopFrame ==
    \A p \in AllProcs :
       (/\ AbsentNoop(call'[p])
        /\ \/ call'[p].rpcs # call[p].rpcs
           \/ call'[p].pc # call[p].pc)
          => remote' = remote /\ ops' = ops

(* C19 - absent no-op.  A call with state=absent that located nothing,    *)
(* disk or instance, issues the List and no other RPC and ends with        *)
(* changed=false and no resource in the outcome; no step of such a call    *)
(* changes the remote resources or creates an operation.                   *)
C19_AbsentNoop == []AbsentNoopOutcome /\ [][AbsentNoopFrame]_vars

C19_Witness ==
    \E p \in AllProcs :
       /\ AbsentNoop(call[p])
       /\ Unchanged(call[p])
       /\ \A r \in ResIds : ~remote[r].exists

---------------------------------------------------------------------------
\* the step a failure message names for a failed RPC
FailedStep(r) ==
    CASE r.rpc = "List"      -> "find"
      [] r.rpc = "OpGet"     -> "operation"
      [] r.rpc = "Get"       -> "get"
      [] r.rpc = "Create"    -> "create"
      [] r.rpc = "Update"    -> "update"
      [] r.rpc = "Delete"    -> "delete"
      [] r.rpc = "Start"     -> "start"
      [] r.rpc = "Stop"      -> "stop"
      [] OTHER               -> "restart"

(* C20 - failure is fatal and final.  An RPC of a call that raised (List, *)
(* Create, Update, Delete, Start, Stop, Restart, a poll of the operation,  *)
(* or Get) or a poll that showed the operation ended in error is the last  *)
(* RPC of the call: the call has ended with one failure message, which     *)
(* names the failed step and carries no resource, and it issued the failed *)
(* RPC once and at most one mutating RPC.                                  *)
C20_FailureIsFinal ==
    \A p \in AllProcs :
       LET c == call[p]
           n == Len(c.rpcs)
       IN  \A i \in DOMAIN c.rpcs :
              c.rpcs[i].res \in {"error", "failed"}
                 => /\ i = n
                    /\ Ended(c)
                    /\ Len(c.out) = 1
                    /\ c.out[1].type = "fail"
                    /\ c.out[1].msg = FailedStep(c.rpcs[i])
                    /\ c.out[1].res = EmptyDict
                    /\ c.out[1].err # NoErr
                    /\ c.rpcs[i].res = "failed"
                          => c.out[1].err \in ErrPayloads
                    /\ c.rpcs[i].rpc \notin {"OpGet"}
                          => Count(c, c.rpcs[i].rpc) = 1
                    /\ Cardinality({j \in DOMAIN c.rpcs :
                                      c.rpcs[j].rpc \in MutatingRpcs}) <= 1

\* an operation that ended in error after a poll that found it pending
C20_Witness ==
    \E p \in AllProcs :
       LET c == call[p]
           n == Len(c.rpcs)
       IN  /\ n >= 4
           /\ c.rpcs[n].res = "failed"
           /\ c.rpcs[n - 1].res = "pending"
           /\ Ended(c)
           /\ c.out[1].type = "fail"

---------------------------------------------------------------------------
\* the Create of the call was accepted and its wait failed: the last RPC is
\* a poll that raised or that showed the operation ended in error
CreateWaitFailed(c) ==
    /\ Len(c.rpcs) >= 3
    /\ c.rpcs[2].rpc = "Create" /\ c.rpcs[2].res = "ok"
    /\ \E i \in 3..Len(c.rpcs) :
          c.rpcs[i].rpc = "OpGet" /\ c.rpcs[i].res \in {"error", "failed"}

\* such a call ended in failure on that poll, with the Create as its only
\* mutating RPC and no Get
NoRollbackOutcome ==
    \A p \in AllProcs :
       LET c == call[p]
           n == Len(c.rpcs)
       IN  CreateWaitFailed(c)
              => /\ c.rpcs[n].rpc = "OpGet"
                 /\ c.rpcs[n].res \in {"error", "failed"}
                 /\ \A i \in 3..(n - 1) : c.rpcs[i].res = "pending"
                 /\ Ended(c)
                 /\ Len(c.out) = 1 /\ c.out[1].type = "fail"
                 /\ c.out[1].msg = "operation"
                 /\ Count(c, "Delete") = 0
                 /\ Count(c, "Get") = 0
                 /\ \A i \in DOMAIN c.rpcs :
                       c.rpcs[i].rpc \in MutatingRpcs => i = 2

\* the step on which the wait fails leaves every remote resource as it is,
\* and leaves the operation pending when it was
NoRollbackFrame ==
    \A p \in AllProcs :
       (CreateWaitFailed(call'[p]) /\ ~CreateWaitFailed(call[p]))
          => /\ remote' = remote
             /\ LET o == call[p].operation.id
                IN  ops[o].st = "pending" => ops'[o] = ops[o]

(* C21 - no rollback.  When the Create of a call was accepted and the     *)
(* wait then fails, on a poll that raised or on one that showed the        *)
(* operation ended in error, the call ends in failure on that poll: it     *)
(* issues no Delete and no other RPC, the step changes no remote resource, *)
(* and a create still pending stays pending.                               *)
C21_NoRollback == []NoRollbackOutcome /\ [][NoRollbackFrame]_vars

\* a poll raised after the operation had created the resource, which is
\* still there when the call has failed
C21_Witness ==
    \E p \in AllProcs :
       LET c == call[p]
       IN  /\ CreateWaitFailed(c)
           /\ Ended(c)
           /\ c.rpcs[Len(c.rpcs)].res = "error"
           /\ remote[c.operation.rid].exists
           /\ ~c.disturbed

---------------------------------------------------------------------------
(* C22 - no mutual exclusion across calls.  Among calls with              *)
(* state=present that run at the same time for one name, a call whose List *)
(* returned no match goes on to issue a Create whatever the other call has *)
(* done: once it is past the decision its second RPC is a Create, also     *)
(* when the other call's Create for the name was accepted already.         *)
C22_NoMutualExclusion ==
    \A p \in AllProcs :
       LET c == call[p]
       IN  (c.state = "present" /\ c.listed /\ c.response = <<>>)
              => /\ c.located = EmptyDict
                 /\ c.pc # "match"
                       => /\ Len(c.rpcs) >= 2
                          /\ c.rpcs[2].rpc = "Create"
                          /\ Count(c, "Create") = 1

\* both calls listed no match, both Creates were accepted, for two
\* different resources of the one name, and both calls are waiting
C22_Witness ==
    /\ \A p \in AllProcs :
          /\ call[p].state = "present" /\ call[p].listed
          /\ call[p].response = <<>>
          /\ Len(call[p].rpcs) = 2
          /\ call[p].rpcs[2] = Rpc("Create", 0, "ok")
          /\ call[p].pc = "wait"
    /\ call[1].operation.rid # call[2].operation.rid
    /\ call[1].operation.id # call[2].operation.id

---------------------------------------------------------------------------
(* Vocabulary of the transport *)

\* the call ended on a unary call that raised
Raised(c) ==
    /\ Ended(c) /\ c.rpcs # <<>>
    /\ c.rpcs[Len(c.rpcs)].res = "error"

\* the most attempts a unary call is given, over every way the remote may
\* answer
MostAttempts ==
    CHOOSE n \in 1..MaxAttempts :
       /\ \A r \in TransportResults : Len(r.attempts) <= n
       /\ \E r \in TransportResults : Len(r.attempts) = n

\* in no unary call was an attempt made after one that ended OK or with a
\* status other than UNAVAILABLE
StopsAtNonRetriable ==
    \A r \in TransportResults :
       \A i \in 1..(Len(r.attempts) - 1) : r.attempts[i] = "UNAVAILABLE"

---------------------------------------------------------------------------
(* C23 - bounded transport retry.  Both clients of a call are bound to    *)
(* the policy max_retry_count = 3, retriable codes = {UNAVAILABLE},        *)
(* per-call timeout = 10, and every RPC goes through one of them: no unary *)
(* call is attempted more than 1 + 3 times, and a call that raised after   *)
(* UNAVAILABLE on every attempt made 1 + 3 attempts and reached main as    *)
(* one error, on which the call ended with one failure message.            *)
C23_BoundedRetry ==
    /\ MostAttempts = 1 + 3
    /\ \A p \in AllProcs :
          LET c == call[p]
              policy == [max_retry_count |-> 3, per_call_timeout |-> 10,
                         retriable_codes |-> {"UNAVAILABLE"}]
          IN  /\ (c.pc = "find" \/ c.rpcs # <<>>)
                    => c.clients.resource = policy
                       /\ c.clients.operation = policy
              /\ Raised(c)
                    => /\ Len(c.wire) \in 1..(1 + 3)
                       /\ (\A i \in DOMAIN c.wire : c.wire[i] = "UNAVAILABLE")
                             => /\ Len(c.wire) = 1 + 3
                                /\ c.out[1].err = RpcError("UNAVAILABLE")
                       /\ Len(c.out) = 1 /\ c.out[1].type = "fail"
                       /\ Count(c, c.rpcs[Len(c.rpcs)].rpc)
                             = IF c.rpcs[Len(c.rpcs)].rpc = "OpGet"
                               THEN c.polls + 1 ELSE 1
              /\ ~Raised(c) => c.wire = <<>>

\* a Get that was UNAVAILABLE four times over
C23_Witness ==
    \E p \in AllProcs :
       /\ Raised(call[p])
       /\ call[p].rpcs[Len(call[p].rpcs)].rpc = "Get"
       /\ call[p].wire = <<"UNAVAILABLE", "UNAVAILABLE", "UNAVAILABLE",
                           "UNAVAILABLE">>

---------------------------------------------------------------------------
(* C24 - non-retriable failures are not retried.  In a unary call that    *)
(* raised, every attempt before the last was UNAVAILABLE: an attempt that  *)
(* failed with another status was the last one, so a call whose first      *)
(* attempt fails with such a status is attempted once; its error reaches   *)
(* main as one error with that status, on which the call ended with one    *)
(* failure message.                                                        *)
C24_NonRetriableOnce ==
    /\ StopsAtNonRetriable
    /\ \A p \in AllProcs :
          LET c == call[p]
              n == Len(c.wire)
          IN  Raised(c)
                 => /\ n >= 1
                    /\ \A i \in 1..(n - 1) : c.wire[i] = "UNAVAILABLE"
                    /\ c.wire[1] # "UNAVAILABLE" => n = 1
                    /\ c.wire[n] # "OK"
                    /\ c.out[1].err = RpcError(c.wire[n])
                    /\ Len(c.out) = 1 /\ c.out[1].type = "fail"

\* a Create refused at its first attempt
C24_Witness ==
    \E p \in AllProcs :
       /\ Raised(call[p])
       /\ call[p].rpcs[Len(call[p].rpcs)].rpc = "Create"
       /\ call[p].wire = <<"INVALID_ARGUMENT">>
       /\ call[p].out[1].err.code = 3

---------------------------------------------------------------------------
\* no client was built for the call
NoClients(c) == c.clients = [resource |-> NoClient, operation |-> NoClient]

(* C25 - exactly one credential.  A call given none, or more than one, of *)
(* iam_token, token and service_account_key has ended in a failure message *)
(* of the argument validation with no client built and no RPC issued; a    *)
(* call given exactly one passes the validation and has its clients.       *)
C25_ExactlyOneCredential ==
    \A p \in AllProcs :
       LET c == call[p]
           given == Cardinality(c.creds \cap
                                {"iam_token", "token", "service_account_key"})
       IN  c.pc # "idle"
              => /\ given # 1
                       => /\ Ended(c)
                          /\ Len(c.out) = 1 /\ c.out[1].type = "fail"
                          /\ c.out[1].msg
                                = IF given = 0
                                  THEN "one of the following is required"
                                  ELSE "parameters are mutually exclusive"
                          /\ c.rpcs = <<>>
                          /\ NoClients(c)
                          /\ ~c.listed /\ c.operation = NoOperation
                 /\ given = 1
                       => /\ c.clients = [resource |-> client,
                                          operation |-> client]
                          /\ Ended(c)
                                => c.rpcs # <<>> /\ c.rpcs[1].rpc = "List"

\* a call given two credentials, rejected while the name exists remotely
C25_Witness ==
    \E p \in AllProcs :
       /\ call[p].creds = {"iam_token", "token"}
       /\ Ended(call[p])
       /\ call[p].rpcs = <<>>
       /\ \E r \in ResIds : remote[r].exists

---------------------------------------------------------------------------
(* C26 - no update path for instances.  An instance call with             *)
(* state=present that located an instance in a status other than STOPPED   *)
(* issues the List and nothing else, whether or not the desired fields     *)
(* differ from the located ones, and ends with changed=false, the located  *)
(* instance and no diff.                                                   *)
C26_NoInstanceUpdate ==
    \A p \in AllProcs :
       LET c == call[p]
       IN  (LocatedFor(c, "present") /\ c.located.status # "STOPPED")
              => /\ c.rpcs = <<Rpc("List", 0, "ok")>>
                 /\ c.operation = NoOperation
                 /\ c.update_mask = {}
                 /\ c.pc \in {"match", "done"}
                 /\ Ended(c)
                       => /\ Succeeded(c)
                          /\ ~c.out[1].changed
                          /\ c.out[1].msg = "exists"
                          /\ c.out[1].res = c.located
                          /\ c.out[1].diff = <<>>

\* a running instance whose description is not the desired one, left as is
C26_Witness ==
    \E p \in AllProcs :
       /\ LocatedFor(call[p], "present")
       /\ call[p].located.status = "RUNNING"
       /\ call[p].located.description # call[p].params.description
       /\ Unchanged(call[p])
       /\ ~call[p].disturbed
       /\ remote[call[p].located.id].description
             # call[p].params.description

---------------------------------------------------------------------------
(* C27 - what the disk update decision compares.  For a located disk and  *)
(* state=present the test of main finds a difference, and main takes the   *)
(* update branch, exactly when the size strings differ, or the             *)
(* descriptions differ, or the label maps differ as sets of key/value      *)
(* pairs; when none does, a different disk type leads to no Update: the    *)
(* call issues the List alone and ends with changed=false.                 *)
C27_NeedsUpdateFields ==
    \A p \in AllProcs :
       LET c == call[p]
           differ == \/ c.located.size # IntToStr(c.params.size)
                     \/ c.located.description # c.params.description
                     \/ {c.located.labels[i] : i \in DOMAIN c.located.labels}
                           # {c.params.labels[i] : i \in DOMAIN c.params.labels}
       IN  (kind = "disk" /\ c.listed /\ c.state = "present"
                          /\ c.located # EmptyDict)
              => /\ DiskDiffers(c.located, c.params) <=> differ
                 /\ Main(kind, c) = "update" <=> differ
                 /\ Count(c, "Update") > 0 => differ
                 /\ ~differ
                       => /\ c.rpcs = <<Rpc("List", 0, "ok")>>
                          /\ Ended(c)
                                => Unchanged(c) /\ c.out[1].msg = "exists"

\* a disk of another type than the desired one, left as it is
C27_Witness ==
    \E p \in AllProcs :
       /\ kind = "disk" /\ call[p].listed /\ call[p].state = "present"
       /\ call[p].located # EmptyDict
       /\ call[p].located.type_id # call[p].params.type_id
       /\ DifferingFields(call[p].located, call[p].params) = {}
       /\ Unchanged(call[p])

---------------------------------------------------------------------------
\* the insertion orders a dict with these items may have
Orders(items) ==
    {s \in [DOMAIN items -> {items[i] : i \in DOMAIN items}] :
        \A i, j \in DOMAIN items : i # j => s[i] # s[j]}

(* C28 - label-order independence.  For a located disk and state=present, *)
(* where main decides: whatever insertion order the observed and the       *)
(* desired labels are given in, the test decides the same and the diff of  *)
(* the two field sets is the same, line for line; and the diff an updating *)
(* call reports has the labels in key order.                               *)
C28_LabelOrderIndependence ==
    \A p \in AllProcs :
       LET c == call[p]
       IN  (kind = "disk" /\ c.listed /\ c.state = "present"
                          /\ c.located # EmptyDict)
              => /\ c.pc = "match"
                       => \A lo \in Orders(c.located.labels),
                             ld \in Orders(c.params.labels) :
                             LET disk   == [c.located EXCEPT !.labels = lo]
                                 params == [c.params EXCEPT !.labels = ld]
                             IN  /\ DiskDiffers(disk, params)
                                       = DiskDiffers(c.located, c.params)
                                 /\ ndiff(dumps(OldFields(disk)),
                                          dumps(NewFields(params)))
                                       = ndiff(dumps(OldFields(c.located)),
                                               dumps(NewFields(c.params)))
                 /\ (Succeeded(c) /\ c.out[1].diff # <<>>)
                       => \A i, j \in DOMAIN c.out[1].diff :
                             LET di == c.out[1].diff[i]
                                 dj == c.out[1].diff[j]
                             IN  (/\ i < j /\ di.tag = dj.tag
                                  /\ di.line.indent = 2 /\ dj.line.indent = 2)
                                    => KeyRank(di.line.key)
                                          < KeyRank(dj.line.key)

\* the desired labels are the observed ones in another insertion order,
\* and the call reports no change
C28_Witness ==
    \E p \in AllProcs :
       /\ kind = "disk" /\ call[p].listed /\ call[p].state = "present"
       /\ call[p].located # EmptyDict
       /\ Len(call[p].located.labels) = 2
       /\ call[p].located.labels # call[p].params.labels
       /\ DictEq(call[p].located.labels, call[p].params.labels)
       /\ Unchanged(call[p])

---------------------------------------------------------------------------
\* the RPCs of c in the order main issues them: the List first; a mutating
\* RPC only second, after a List that returned; polls only of the operation
\* the mutating RPC returned, each after the RPC or after a poll that said
\* pending; a Get only last, after the poll that said done or, with no
\* operation at all, right after the List of a stopped instance
Sequenced(c) ==
    LET n == Len(c.rpcs)
    IN  \A i \in 1..n :
           LET r == c.rpcs[i]
           IN  /\ i = 1 <=> r.rpc = "List"
               /\ i < n => r.res \in {"ok", "pending", "done"}
               /\ r.rpc \in MutatingRpcs
                     => i = 2 /\ c.rpcs[1].res = "ok"
               /\ r.rpc = "OpGet"
                     => /\ i >= 3
                        /\ c.rpcs[2].rpc \in MutatingRpcs
                        /\ c.rpcs[2].res = "ok"
                        /\ r.arg = c.operation.id
                        /\ c.rpcs[i - 1].rpc \in MutatingRpcs \cup {"OpGet"}
                        /\ c.rpcs[i - 1].res \in {"ok", "pending"}
               /\ r.rpc = "Get"
                     => /\ i = n
                        /\ \/ /\ c.rpcs[i - 1].rpc = "OpGet"
                              /\ c.rpcs[i - 1].res = "done"
                              /\ c.polled.done
                              /\ c.polled.err = NoErr
                           \/ /\ i = 2
                              /\ c.rpcs[1].res = "ok"
                              /\ c.state = "stopped"
                              /\ c.located.status = "STOPPED"

\* what the call is about to do agrees with what it has issued
Positioned(c) ==
    /\ c.pc = "find"  => c.rpcs = <<>>
    /\ c.pc = "match" => Len(c.rpcs) = 1
    /\ c.pc = "wait"  => /\ Len(c.rpcs) >= 2
                         /\ c.rpcs[Len(c.rpcs)].rpc \in MutatingRpcs \cup {"OpGet"}
                         /\ c.rpcs[Len(c.rpcs)].res \in {"ok", "pending"}
    /\ c.pc = "get"   => /\ c.rpcs[Len(c.rpcs)].rpc = "OpGet"
                         /\ c.polled.done
                         /\ c.polled.err = NoErr

(* C29 - strict sequencing within one call.  The RPCs of every call are,   *)
(* in order: the List, then at most one mutating RPC, then polls of the    *)
(* operation it returned, then at most one Get, issued only after a poll   *)
(* said done without error (or with no operation at all); no call issues   *)
(* two mutating RPCs, and a call is never about to Get while its operation *)
(* has not been seen done.                                                 *)
C29_StrictSequencing ==
    \A p \in AllProcs :
       LET c == call[p]
       IN  /\ Sequenced(c)
           /\ Positioned(c)
           /\ Cardinality({i \in DOMAIN c.rpcs :
                              c.rpcs[i].rpc \in MutatingRpcs}) <= 1
           /\ Count(c, "List") <= 1
           /\ Count(c, "Get") <= 1

\* a call went through all four stages, with a poll that said pending
C29_Witness ==
    \E p \in AllProcs :
       LET c == call[p]
       IN  /\ Len(c.rpcs) >= 5
           /\ c.rpcs[2].rpc \in MutatingRpcs
           /\ c.rpcs[3] = Rpc("OpGet", c.operation.id, "pending")
           /\ c.rpcs[Len(c.rpcs)].rpc = "Get"
           /\ Succeeded(c)

---------------------------------------------------------------------------
\* _wait returned normally to main in call c
WaitReturned(c) ==
    \/ c.pc = "get"
    \/ Succeeded(c) /\ c.out[1].changed

\* the last RPC of c before a Get, if any, is this poll
LastPoll(c) ==
    LET n == IF c.rpcs[Len(c.rpcs)].rpc = "Get" THEN Len(c.rpcs) - 1
             ELSE Len(c.rpcs)
    IN  c.rpcs[n]

(* C30 - success only after completion.  Where _wait returned normally -   *)
(* the call is about to Get, or has ended in a success with changed=true - *)
(* the last poll of the call's operation returned done=true without an     *)
(* error; so no such success is reported while the last poll said pending, *)
(* nor after a poll that returned an error payload.                        *)
C30_SuccessAfterCompletion ==
    \A p \in AllProcs :
       LET c == call[p]
       IN  /\ WaitReturned(c)
                 => /\ c.polled.done
                    /\ c.polled.err = NoErr
                    /\ Len(c.rpcs) >= 3
                    /\ LastPoll(c) = Rpc("OpGet", c.operation.id, "done")
                    /\ \A i \in DOMAIN c.rpcs : c.rpcs[i].res # "failed"
           /\ (Ended(c) /\ c.polled # NoPoll
                         /\ (~c.polled.done \/ c.polled.err # NoErr))
                 => /\ ~Succeeded(c)
                    /\ \A i \in DOMAIN c.out : c.out[i].type = "fail"

\* a changed=true success after polls that said pending and one that said
\* done
C30_Witness ==
    \E p \in AllProcs :
       LET c == call[p]
       IN  /\ Succeeded(c) /\ c.out[1].changed
           /\ c.polls > 0
           /\ c.polled.done

---------------------------------------------------------------------------
\* c is in _wait or left it only on a poll that said done or that failed
WaitEndsOnPoll(c) ==
    (Len(c.rpcs) >= 2 /\ c.rpcs[2].rpc \in MutatingRpcs /\ c.rpcs[2].res = "ok")
       => \/ c.pc = "wait"
          \/ /\ c.pc \in {"get", "done"}
             /\ \E i \in 3..Len(c.rpcs) :
                   /\ c.rpcs[i].rpc = "OpGet"
                   /\ c.rpcs[i].res \in {"done", "failed", "error"}
                   /\ \A j \in 3..(i - 1) :
                         c.rpcs[j] = Rpc("OpGet", c.operation.id, "pending")

\* a poll that said pending leaves the call in _wait
KeepsPolling(c) ==
    (c.rpcs # <<>> /\ c.rpcs[Len(c.rpcs)].rpc = "OpGet"
                  /\ c.rpcs[Len(c.rpcs)].res = "pending")
       => c.pc = "wait" /\ c.out = <<>>

(* C31 - wait termination.  A call is in _wait until a poll says done or   *)
(* fails, however many polls said pending before; when every operation    *)
(* ends and every poll returns, a call that is in _wait, and every call    *)
(* that runs, eventually ends with an outcome.                             *)
C31_WaitTerminates ==
    /\ [](\A p \in AllProcs : WaitEndsOnPoll(call[p]) /\ KeepsPolling(call[p]))
    /\ \A p \in AllProcs :
          /\ (call[p].pc = "wait") ~> (Ended(call[p]) /\ Len(call[p].out) = 1)
          /\ Running(p) ~> (Ended(call[p]) /\ Len(call[p].out) = 1)

\* a call ended in success after as many pending polls as the model allows
C31_Witness ==
    \E p \in AllProcs :
       LET c == call[p]
       IN  /\ Succeeded(c) /\ c.out[1].changed
           /\ c.polls = MaxPolls
           /\ c.rpcs[2 + MaxPolls] = Rpc("OpGet", c.operation.id, "pending")
           /\ c.polled.done

---------------------------------------------------------------------------
\* the second RPC of c, if any, is the one the response of its List asks
\* for, on the id that response gave
DecidedFromList(c) ==
    Len(c.rpcs) >= 2
       => LET r == c.rpcs[2]
          IN  /\ r.rpc = "Create"
                    => c.located = EmptyDict /\ c.state = "present"
              /\ r.rpc \in MutatingRpcs \ {"Create"}
                    => c.located # EmptyDict /\ r.arg = c.located.id
              /\ r.rpc = "Update"
                    => /\ kind = "disk" /\ c.state = "present"
                       /\ DiskDiffers(c.located, c.params)
              /\ r.rpc = "Delete" => c.state = "absent"
              /\ r.rpc = "Start"
                    => /\ c.state \in {"present", "restarted"}
                       /\ c.located.status = "STOPPED"
              /\ r.rpc = "Restart"
                    => c.state = "restarted" /\ c.located.status # "STOPPED"
              /\ r.rpc = "Stop"
                    => c.state = "stopped" /\ c.located.status # "STOPPED"
              /\ r.rpc = "Get"
                    => c.state = "stopped" /\ c.located.status = "STOPPED"

\* a call that ended on its List alone reports what the response gave
EndedOnList(c) ==
    (Ended(c) /\ Len(c.rpcs) = 1)
       => /\ Len(c.out) = 1
          /\ c.out[1].type = "exit"
                => \/ /\ c.state = "present" /\ c.located # EmptyDict
                      /\ c.out[1].res = c.located
                   \/ c.state = "absent" /\ c.located = EmptyDict
          /\ c.out[1].type = "fail"
                => /\ c.out[1].msg = "not found"
                   /\ c.state \in {"restarted", "stopped"}
                   /\ c.located = EmptyDict

(* C32 - single locator read.  A call whose arguments passed issues the    *)
(* List first and only once, keeps what that response gave, and takes its  *)
(* branch from it alone: the mutating RPC, the Get of a stopped instance    *)
(* or the outcome of a call that ends on the List are the ones the         *)
(* response asks for, on the id it gave, whatever the remote holds by      *)
(* then.                                                                   *)
C32_SingleLocatorRead ==
    \A p \in AllProcs :
       LET c == call[p]
       IN  /\ c.rpcs # <<>> => c.rpcs[1].rpc = "List"
           /\ Count(c, "List") <= 1
           /\ (c.pc \in {"match", "wait", "get"} \/ Len(c.rpcs) >= 2)
                 => /\ c.listed
                    /\ c.rpcs[1] = Rpc("List", 0, "ok")
           /\ (Ended(c) /\ c.clients.resource # NoClient)
                 => Count(c, "List") = 1
           /\ c.listed
                 => /\ c.located = find(c.response)
                    /\ DecidedFromList(c)
                    /\ EndedOnList(c)

\* nothing was located, a resource of the name appeared before main
\* decided, and the call created a second one all the same
C32_Witness ==
    \E p \in AllProcs :
       LET c == call[p]
       IN  /\ c.listed /\ c.located = EmptyDict /\ c.disturbed
           /\ c.pc = "wait"
           /\ c.rpcs = <<Rpc("List", 0, "ok"), Rpc("Create", 0, "ok")>>
           /\ ops[c.operation.id].st = "pending"
           /\ c.operation.rid = 2
           /\ remote[1].exists
           /\ find(ListResponse(kind, remote)) # c.located

---------------------------------------------------------------------------
\* the mutating RPCs call c issued
Mutations(c) == {i \in DOMAIN c.rpcs : c.rpcs[i].rpc \in MutatingRpcs}

(* C33 - the changed flag matches the actions.  A call of either kind that *)
(* ended in success reports changed=true exactly when it issued a mutating *)
(* RPC, which the remote accepted; a success with changed=false issued     *)
(* none.                                                                   *)
C33_ChangedMatchesActions ==
    \A p \in AllProcs :
       LET c == call[p]
       IN  Succeeded(c)
              => /\ c.out[1].changed <=> Mutations(c) # {}
                 /\ c.out[1].changed
                       => \A i \in Mutations(c) : c.rpcs[i].res = "ok"
                 /\ ~c.out[1].changed => NoMutating(c)

\* a present call that started a stopped instance and reports the change
C33_Witness ==
    \E p \in AllProcs :
       LET c == call[p]
       IN  /\ kind = "instance" /\ c.state = "present"
           /\ Succeeded(c) /\ c.out[1].changed
           /\ Len(c.rpcs) >= 2 /\ c.rpcs[2] = Rpc("Start", c.located.id, "ok")

---------------------------------------------------------------------------
(* C34 - no duplicate create.  A call issues a Create only when the        *)
(* response of its List held no resource of the name; when the response    *)
(* holds one or more, the call issues no Create.                           *)
C34_NoDuplicateCreate ==
    \A p \in AllProcs :
       LET c == call[p]
       IN  /\ Count(c, "Create") > 0 => c.listed /\ c.response = <<>>
           /\ (c.listed /\ c.response # <<>>) => Count(c, "Create") = 0

---------------------------------------------------------------------------
(* C35 - present means running.  An instance call with state=present that *)
(* ends in success returns an instance whose status is RUNNING, whatever   *)
(* the status of the located instance was.                                 *)
C35_PresentMeansRunning ==
    \A p \in AllProcs :
       LET c == call[p]
       IN  (kind = "instance" /\ c.state = "present" /\ Succeeded(c))
              => c.out[1].res.status = "RUNNING"

====
